---- MODULE Spec2Model ----
(***************************************************************************)
(* A model of GenerateDocxFromEntries (src/main.go, lines 246-448): the    *)
(* builder of a DOCX package (a ZIP archive of XML parts and SVG media)    *)
(* from a list of figure and text entries.                                 *)
(*                                                                         *)
(* Strings are sequences of runes (Unicode code points), byte blobs are    *)
(* named values, part names are the sequences of their "/"-separated       *)
(* segments ("word/media/" is <<"word", "media", "">>).                    *)
(***************************************************************************)
EXTENDS Integers, Sequences, FiniteSets, TLC

VARIABLES
    entries,        \* the argument: the list of DocumentEntry
    dest0,          \* what outputPath held before the call
    pc,             \* the position in the function
    i,              \* the index of the running loop (range loops, step lists)
    figureCount,    \* line 250
    figureData,     \* line 251
    readLog,        \* the paths handed to ioutil.ReadFile so far, in order
    docBody,        \* line 278: the blocks written to docBody so far
    figureIndex,    \* line 279, reset at line 432
    parts,          \* documentXML, docRels, contentTypes, relsRoot once built
    dest,           \* what outputPath holds now
    zw,             \* the zip.Writer on outFile
    central,        \* the central directory as written to the destination
    writeLog,       \* the outcome of every write to the destination, in order
    result          \* the returned error ("none" while running)

vars == <<entries, dest0, pc, i, figureCount, figureData, readLog, docBody,
          figureIndex, parts, dest, zw, central, writeLog, result>>

----------------------------------------------------------------------------
(* Bounds of the model *)

MaxEntries == 3

MaxLen == 2

----------------------------------------------------------------------------
(* Sequences *)

RECURSIVE SeqsUpTo(_, _)
SeqsUpTo(S, n) ==
    IF n = 0 THEN {<<>>}
    ELSE LET shorter == SeqsUpTo(S, n - 1)
         IN  shorter \cup {Append(s, x) : s \in {t \in shorter : Len(t) = n - 1}, x \in S}

RECURSIVE Concat(_)
Concat(ss) == IF ss = <<>> THEN <<>> ELSE Head(ss) \o Concat(Tail(ss))

----------------------------------------------------------------------------
(* Runes (code points) named below *)

R == [tab |-> 9, nl |-> 10, cr |-> 13, quot |-> 34, hash |-> 35, amp |-> 38,
      apos |-> 39, semi |-> 59, lt |-> 60, gt |-> 62, ctl |-> 1, a |-> 97,
      eacute |-> 233, fffd |-> 65533]

\* "amp", "lt", ... spelled as runes
Spell == [amp  |-> <<97, 109, 112>>,       lt   |-> <<108, 116>>,
          gt   |-> <<103, 116>>,           quot |-> <<113, 117, 111, 116>>,
          apos |-> <<97, 112, 111, 115>>]

----------------------------------------------------------------------------
(* xmlEscape: xml.EscapeText on the bytes of s, the buffer's content back.  *)
(* encoding/xml escapes " ' & < > and tab, LF, CR as references, replaces   *)
(* every rune outside the XML character range by U+FFFD and copies the     *)
(* rest.                                                                   *)

isInCharacterRange(r) ==
    \/ r = 9 \/ r = 10 \/ r = 13
    \/ (r >= 32 /\ r <= 55295)
    \/ (r >= 57344 /\ r <= 65533)
    \/ (r >= 65536 /\ r <= 1114111)

\* a faulty variant: "<" is copied, not escaped
EscapeRune_RawLT(r) ==
    CASE r = R.quot -> <<38, 35, 51, 52, 59>>
      [] r = R.apos -> <<38, 35, 51, 57, 59>>
      [] r = R.amp  -> <<38, 97, 109, 112, 59>>
      [] r = R.gt   -> <<38, 103, 116, 59>>
      [] r = R.tab  -> <<38, 35, 120, 57, 59>>
      [] r = R.nl   -> <<38, 35, 120, 65, 59>>
      [] r = R.cr   -> <<38, 35, 120, 68, 59>>
      [] OTHER      -> IF isInCharacterRange(r) THEN <<r>> ELSE <<R.fffd>>

EscapeRune(r) ==
    CASE r = R.quot -> <<38, 35, 51, 52, 59>>         \* &#34;
      [] r = R.apos -> <<38, 35, 51, 57, 59>>         \* &#39;
      [] r = R.amp  -> <<38, 97, 109, 112, 59>>       \* &amp;
      [] r = R.lt   -> <<38, 108, 116, 59>>           \* &lt;
      [] r = R.gt   -> <<38, 103, 116, 59>>           \* &gt;
      [] r = R.tab  -> <<38, 35, 120, 57, 59>>        \* &#x9;
      [] r = R.nl   -> <<38, 35, 120, 65, 59>>        \* &#xA;
      [] r = R.cr   -> <<38, 35, 120, 68, 59>>        \* &#xD;
      [] OTHER      -> IF isInCharacterRange(r) THEN <<r>> ELSE <<R.fffd>>

xmlEscape(s) == Concat([k \in DOMAIN s |-> EscapeRune(s[k])])

----------------------------------------------------------------------------
(* float64 arithmetic, as lines 271-272 use it.  A float64 is                *)
(* [m |-> its 53 significand bits, most significant first, e |-> the        *)
(* exponent of the first bit]: the value is the sum of m[k] * 2^(e - k + 1).*)
(* Operations round to nearest, ties to even (IEEE 754).  All integers      *)
(* stay below 2^31.                                                         *)

Float64Bits == 53

RECURSIVE Pow2(_)
Pow2(n) == IF n = 0 THEN 1 ELSE 2 * Pow2(n - 1)

\* the largest e with b * 2^e <= a, for a >= b > 0
RECURSIVE Log2Quot(_, _)
Log2Quot(a, b) == IF a < 2 * b THEN 0 ELSE 1 + Log2Quot(a, 2 * b)

\* the n bits of the integer v < 2^n, most significant first
IntBits(v, n) == [k \in 1..n |-> (v \div Pow2(n - k)) % 2]

\* the first 9n bits of the fraction r / d (0 <= r < d <= 2^22), nine at a
\* time, and the remainder left
RECURSIVE DivBits(_, _, _)
DivBits(r, d, n) ==
    IF n = 0 THEN [bits |-> <<>>, rem |-> r]
    ELSE LET t    == r * 512
             rest == DivBits(t % d, d, n - 1)
         IN  [bits |-> IntBits(t \div d, 9) \o rest.bits, rem |-> rest.rem]

\* bits (most significant first) plus one; carry |-> 1 when it overflows
Increment(bits) ==
    LET zeros == {k \in DOMAIN bits : bits[k] = 0}
    IN  IF zeros = {}
        THEN [bits |-> [k \in DOMAIN bits |-> 0], carry |-> 1]
        ELSE LET p == CHOOSE k \in zeros : \A j \in zeros : j <= k
             IN  [bits  |-> [k \in DOMAIN bits |->
                               IF k < p THEN bits[k] ELSE IF k = p THEN 1 ELSE 0],
                  carry |-> 0]

\* round the bit string `bits` (first bit 1, exponent e, `sticky` set when
\* bits beyond it are not all zero) to 53 bits, to nearest, ties to even
RoundToFloat64(bits, e, sticky) ==
    LET n     == Len(bits)
        kept  == SubSeq(bits, 1, Float64Bits)
        guard == bits[Float64Bits + 1]
        below == sticky \/ \E k \in (Float64Bits + 2)..n : bits[k] = 1
        up    == guard = 1 /\ (below \/ kept[Float64Bits] = 1)
        inc   == Increment(kept)
    IN  IF ~up THEN [m |-> kept, e |-> e]
        ELSE IF inc.carry = 0 THEN [m |-> inc.bits, e |-> e]
        ELSE [m |-> <<1>> \o SubSeq(inc.bits, 1, Float64Bits - 1), e |-> e + 1]

\* float64(a) / float64(b) for integers a >= b > 0 (both exact as float64)
\* with b * 2^e <= 2^22: the first bit is 1, the fraction's bits follow
Float64Div(a, b) ==
    LET e == Log2Quot(a, b)
        d == b * Pow2(e)
        q == DivBits(a - d, d, 6)
    IN  RoundToFloat64(<<1>> \o q.bits, e, q.rem # 0)

\* the bit string without its leading zeros
StripZeros(bits) ==
    LET ones == {k \in DOMAIN bits : bits[k] = 1}
    IN  IF ones = {} THEN <<>>
        ELSE SubSeq(bits, CHOOSE k \in ones : \A j \in ones : k <= j, Len(bits))

\* k times the 9-bit groups `groups` (least significant group first), plus
\* carry, as bits, most significant first (0 < k < 2^22)
RECURSIVE MulGroups(_, _, _)
MulGroups(groups, k, carry) ==
    IF groups = <<>> THEN IntBits(carry, 22)
    ELSE LET t == Head(groups) * k + carry
         IN  MulGroups(Tail(groups), k, t \div 512) \o IntBits(t % 512, 9)

RECURSIVE BitsToInt(_)
BitsToInt(bits) ==
    IF bits = <<>> THEN 0
    ELSE 2 * BitsToInt(SubSeq(bits, 1, Len(bits) - 1)) + bits[Len(bits)]

\* float64(k) * f for an integer 0 < k < 2^22 (exact as float64)
Float64Mul(k, f) ==
    LET m54    == <<0>> \o f.m
        groups == [g \in 1..6 |-> BitsToInt(SubSeq(m54, 54 - 9 * g + 1, 54 - 9 * (g - 1)))]
        prod   == StripZeros(MulGroups(groups, k, 0))
    IN  RoundToFloat64(prod \o <<0>>, f.e + (Len(prod) - Float64Bits), FALSE)

\* a faulty variant: int() rounding up instead of truncating
Float64ToInt_Ceil(f) ==
    IF f.e < 0 THEN 1
    ELSE BitsToInt(SubSeq(f.m, 1, f.e + 1))
         + (IF \E k \in (f.e + 2)..Float64Bits : f.m[k] = 1 THEN 1 ELSE 0)

\* int(f) for f >= 0 below 2^31: the fraction is dropped
Float64ToInt(f) ==
    IF f.e < 0 THEN 0 ELSE BitsToInt(SubSeq(f.m, 1, f.e + 1))

----------------------------------------------------------------------------
(* The layout constants, lines 263-272 and the envelope, lines 352-353 *)

pageWidth == 11906

leftMargin == 1440

rightMargin == 1440

twipsPerPoint == 20

emuPerPoint == 12700

fullWidthEmu == 5737100

sourceWidthEmu == 3000000

sourceHeightEmu == 2000000

scaleFactor == Float64Div(fullWidthEmu, sourceWidthEmu)

newHeightEmu == Float64ToInt(Float64Mul(sourceHeightEmu, scaleFactor))

----------------------------------------------------------------------------
(* The inputs *)

\* DocumentEntry, lines 206-216
FigureEntry(path, legend) ==
    [Type |-> "figure", SvgPath |-> path, Legend |-> legend, Text |-> <<>>]

TextEntry(text) ==
    [Type |-> "text", SvgPath |-> "", Legend |-> <<>>, Text |-> text]

\* an entry whose Type is neither "figure" nor "text"
OtherEntry ==
    [Type |-> "table", SvgPath |-> "", Legend |-> <<>>, Text |-> <<>>]

\* the SVG files on disk, and what ioutil.ReadFile returns for each when
\* the read succeeds
Paths == {"input1.svg", "input2.svg"}

FileData == [p \in Paths |-> IF p = "input1.svg" THEN "bytesA" ELSE "bytesB"]

\* the legends and texts of the build's model: "a" and "<&"
Captions == {<<97>>, <<60, 38>>}

Entries ==
    {FigureEntry(p, c) : p \in Paths, c \in Captions}
        \cup {TextEntry(c) : c \in Captions} \cup {OtherEntry}

\* the strings of the escaping model
Alphabet == {R.amp, R.lt, R.gt, R.quot, R.apos, R.tab, R.nl, R.cr, R.ctl, R.a,
             R.semi, R.hash, R.eacute}

Strs == SeqsUpTo(Alphabet, MaxLen)

----------------------------------------------------------------------------
(* fmt.Sprintf's %d and the names built with it *)

Itoa(n) == ToString(n)

RId(n) == "rId" \o Itoa(n)                                 \* lines 304, 365

PictureName(n) == "Picture " \o Itoa(n)                    \* lines 292, 300

ImageFile(n) == "image" \o Itoa(n) \o ".svg"

MediaTarget(n) == <<"media", ImageFile(n)>>                \* line 367

MediaPartName(n) == <<"", "word", "media", ImageFile(n)>>  \* line 381

MediaName(n) == <<"word", "media", ImageFile(n)>>          \* line 436

----------------------------------------------------------------------------
(* The document body, lines 278-341 *)

\* the paragraph with the drawing, lines 285-324
ImageBlock(n) ==
    [kind |-> "image",
     extentCx |-> fullWidthEmu, extentCy |-> newHeightEmu,
     docPrId |-> n, docPrName |-> PictureName(n), picName |-> PictureName(n),
     embed |-> RId(n),
     extCx |-> fullWidthEmu, extCy |-> newHeightEmu]

\* a paragraph with one run of text, lines 326-331 and 334-339
ParaBlock(text) == [kind |-> "para", text |-> text]

\* a faulty variant: the legend before the drawing
FigureBlocks_LegendFirst(entry, n) ==
    <<ParaBlock(xmlEscape(entry.Legend)), ImageBlock(n)>>

FigureBlocks(entry, n) ==
    <<ImageBlock(n), ParaBlock(xmlEscape(entry.Legend))>>

TextBlocks(entry) == <<ParaBlock(xmlEscape(entry.Text))>>

----------------------------------------------------------------------------
(* The XML parts, lines 344-391 *)

\* a faulty variant: the loop stops one short (i < figureCount)
DocRels_OneShort(n) ==
    [kind |-> "rels",
     rels |-> [k \in 1..(IF n = 0 THEN 0 ELSE n - 1) |->
                 [Id |-> RId(k), Type |-> "image", Target |-> MediaTarget(k)]]]

\* word/_rels/document.xml.rels, lines 360-369
DocRels(n) ==
    [kind |-> "rels",
     rels |-> [k \in 1..n |->
                 [Id |-> RId(k), Type |-> "image", Target |-> MediaTarget(k)]]]

\* [Content_Types].xml, lines 373-383
ContentTypes(n) ==
    [kind      |-> "types",
     defaults  |-> {"xml", "rels"},
     overrides |-> <<[PartName |-> <<"", "word", "document.xml">>,
                      ContentType |-> "document.main+xml"]>>
                   \o [k \in 1..n |-> [PartName |-> MediaPartName(k),
                                       ContentType |-> "image/svg+xml"]]]

\* _rels/.rels, lines 386-391
RelsRoot ==
    [kind |-> "rels",
     rels |-> <<[Id |-> "rId1", Type |-> "officeDocument",
                 Target |-> <<"word", "document.xml">>]>>]

\* word/document.xml, lines 344-356
DocumentXML(body) ==
    [kind |-> "document", body |-> body,
     pgSzW |-> pageWidth, pgMarLeft |-> leftMargin, pgMarRight |-> rightMargin]

----------------------------------------------------------------------------
(* The archive, lines 393-445 *)

DirEntry(name) == [name |-> name, content |-> [kind |-> "dir"]]

FileEntry(name, content) == [name |-> name, content |-> content]

\* a faulty variant: the word/media/ directory entry is forgotten
Directories_NoMedia ==
    <<DirEntry(<<"_rels", "">>), DirEntry(<<"word", "">>),
      DirEntry(<<"word", "_rels", "">>)>>

\* the addDir calls, lines 404-415
Directories ==
    <<DirEntry(<<"_rels", "">>), DirEntry(<<"word", "">>),
      DirEntry(<<"word", "_rels", "">>), DirEntry(<<"word", "media", "">>)>>

\* the addFile calls, lines 418-429
XmlParts(p) ==
    <<FileEntry(<<"[Content_Types].xml">>, p.contentTypes),
      FileEntry(<<"_rels", ".rels">>, p.relsRoot),
      FileEntry(<<"word", "document.xml">>, p.documentXML),
      FileEntry(<<"word", "_rels", "document.xml.rels">>, p.docRels)>>

FixedEntries(p) == Directories \o XmlParts(p)

\* a faulty variant: the data is taken by the count of figures from the end
MediaData_FromEnd(data, n) == data[Len(data) - n + 1]

\* figureData[figureIndex-1] of line 441 (Go slices count from 0)
MediaData(data, n) == data[n]

\* a faulty variant: Close writes the central directory whatever happened before
CentralDirectoryWritten_NoStickyError(w, sinkOk) == sinkOk

\* zipWriter.Close(), line 401.  zip.NewWriter (line 400) writes through a
\* bufio.Writer, which keeps the first write error: after it no byte
\* reaches the file and every later write, Close included, returns it.
\* Every error addDir, addFile, Create and Write return is such a write
\* error.  So Close writes the central directory only when no write failed
\* before and its own writes reach the file.
CentralDirectoryWritten(w, sinkOk) == ~w.err /\ sinkOk

----------------------------------------------------------------------------
(* The state machine of GenerateDocxFromEntries *)

NoParts == [documentXML |-> DocumentXML(<<>>), docRels |-> DocRels(0),
            contentTypes |-> ContentTypes(0), relsRoot |-> RelsRoot]

NoWriter == [dir |-> <<>>, err |-> FALSE, closed |-> FALSE]

Start(es, d) ==
    /\ entries = es
    /\ dest0 = d
    /\ dest = d
    /\ pc = "read"
    /\ i = 1
    /\ figureCount = 0
    /\ figureData = <<>>
    /\ readLog = <<>>
    /\ docBody = <<>>
    /\ figureIndex = 0
    /\ parts = NoParts
    /\ zw = NoWriter
    /\ central = <<>>
    /\ writeLog = <<>>
    /\ result = "none"

\* any list of at most MaxEntries entries; outputPath holds a file or not
Init ==
    \E es \in SeqsUpTo(Entries, MaxEntries), d \in {"absent", "old"} : Start(es, d)

\* one entry whose legend or text is any string of the escaping model
InitEscape ==
    \E str \in Strs, d \in {"absent", "old"} :
        \E e \in {FigureEntry("input1.svg", str), TextEntry(str)} : Start(<<e>>, d)

\* a faulty variant: a failed read is noted and the loop goes on
AfterReadError_GoOn == "read"

\* line 257: the function returns
AfterReadError == "done"

\* lines 252-261, one turn of the loop
ReadFigures ==
    /\ pc = "read"
    /\ i <= Len(entries)
    /\ IF entries[i].Type = "figure"
       THEN /\ figureCount' = figureCount + 1
            /\ readLog' = Append(readLog, entries[i].SvgPath)
            /\ \E ok \in BOOLEAN :
                 IF ok
                 THEN /\ figureData' = Append(figureData, FileData[entries[i].SvgPath])
                      /\ UNCHANGED <<pc, result>>
                 ELSE /\ pc' = AfterReadError
                      /\ result' = "errRead"
                      /\ UNCHANGED figureData
       ELSE UNCHANGED <<figureCount, readLog, figureData, pc, result>>
    /\ i' = i + 1
    /\ UNCHANGED <<entries, dest0, docBody, figureIndex, parts, dest, zw, central, writeLog>>

\* the loop of lines 252-261 ends; lines 267-279
ReadDone ==
    /\ pc = "read"
    /\ i > Len(entries)
    /\ pc' = "body"
    /\ i' = 1
    /\ figureIndex' = 0
    /\ UNCHANGED <<entries, dest0, figureCount, figureData, readLog, docBody, parts,
                   dest, zw, central, writeLog, result>>

\* lines 281-341, one turn of the loop
BuildBody ==
    /\ pc = "body"
    /\ i <= Len(entries)
    /\ IF entries[i].Type = "figure"
       THEN /\ figureIndex' = figureIndex + 1
            /\ docBody' = docBody \o FigureBlocks(entries[i], figureIndex + 1)
       ELSE IF entries[i].Type = "text"
       THEN /\ docBody' = docBody \o TextBlocks(entries[i])
            /\ UNCHANGED figureIndex
       ELSE UNCHANGED <<docBody, figureIndex>>
    /\ i' = i + 1
    /\ UNCHANGED <<entries, dest0, pc, figureCount, figureData, readLog, parts, dest,
                   zw, central, writeLog, result>>

\* lines 344-391: the four XML parts
BuildParts ==
    /\ pc = "body"
    /\ i > Len(entries)
    /\ parts' = [documentXML  |-> DocumentXML(docBody),
                 docRels      |-> DocRels(figureCount),
                 contentTypes |-> ContentTypes(figureCount),
                 relsRoot     |-> RelsRoot]
    /\ pc' = "create"
    /\ UNCHANGED <<entries, dest0, i, figureCount, figureData, readLog, docBody,
                   figureIndex, dest, zw, central, writeLog, result>>

\* lines 394-401: os.Create creates or truncates outputPath, or fails and
\* leaves it as it was; then the zip.Writer and the two deferred calls
OsCreate ==
    /\ pc = "create"
    /\ \E ok \in BOOLEAN :
         IF ok
         THEN /\ dest' = "truncated"
              /\ zw' = NoWriter
              /\ pc' = "write"
              /\ i' = 1
              /\ UNCHANGED result
         ELSE /\ result' = "errCreate"
              /\ pc' = "done"
              /\ UNCHANGED <<dest, zw, i>>
    /\ UNCHANGED <<entries, dest0, figureCount, figureData, readLog, docBody,
                   figureIndex, parts, central, writeLog>>

\* lines 404-429: the next addDir or addFile call; a failure returns, which
\* runs the deferred calls
WriteFixed ==
    /\ pc = "write"
    /\ i <= Len(FixedEntries(parts))
    /\ \E ok \in BOOLEAN :
         /\ writeLog' = Append(writeLog, ok)
         /\ IF ok
            THEN /\ zw' = [zw EXCEPT !.dir = Append(@, FixedEntries(parts)[i])]
                 /\ i' = i + 1
                 /\ UNCHANGED <<pc, result>>
            ELSE /\ zw' = [zw EXCEPT !.err = TRUE]
                 /\ result' = "errWrite"
                 /\ pc' = "zipclose"
                 /\ UNCHANGED i
    /\ UNCHANGED <<entries, dest0, figureCount, figureData, readLog, docBody,
                   figureIndex, parts, dest, central>>

\* line 432
WriteFixedDone ==
    /\ pc = "write"
    /\ i > Len(FixedEntries(parts))
    /\ pc' = "media"
    /\ i' = 1
    /\ figureIndex' = 0
    /\ UNCHANGED <<entries, dest0, figureCount, figureData, readLog, docBody, parts,
                   dest, zw, central, writeLog, result>>

\* lines 433-445, one turn of the loop
WriteMedia ==
    /\ pc = "media"
    /\ i <= Len(entries)
    /\ IF entries[i].Type = "figure"
       THEN /\ figureIndex' = figureIndex + 1
            /\ \E ok \in BOOLEAN :
                 /\ writeLog' = Append(writeLog, ok)
                 /\ IF ok
                    THEN /\ zw' = [zw EXCEPT !.dir = Append(@,
                                     FileEntry(MediaName(figureIndex + 1),
                                               [kind |-> "bytes",
                                                data |-> MediaData(figureData, figureIndex + 1)]))]
                         /\ i' = i + 1
                         /\ UNCHANGED <<pc, result>>
                    ELSE /\ zw' = [zw EXCEPT !.err = TRUE]
                         /\ result' = "errWrite"
                         /\ pc' = "zipclose"
                         /\ UNCHANGED i
       ELSE /\ i' = i + 1
            /\ UNCHANGED <<figureIndex, zw, writeLog, pc, result>>
    /\ UNCHANGED <<entries, dest0, figureCount, figureData, readLog, docBody, parts,
                   dest, central>>

\* line 447: return nil, which runs the deferred calls
ReturnNil ==
    /\ pc = "media"
    /\ i > Len(entries)
    /\ result' = "nil"
    /\ pc' = "zipclose"
    /\ UNCHANGED <<entries, dest0, i, figureCount, figureData, readLog, docBody,
                   figureIndex, parts, dest, zw, central, writeLog>>

\* line 401, deferred: zipWriter.Close(); its error is dropped
ZipClose ==
    /\ pc = "zipclose"
    /\ \E sinkOk \in BOOLEAN :
         LET written == CentralDirectoryWritten(zw, sinkOk)
         IN  /\ central' = IF written THEN zw.dir ELSE central
             /\ dest' = IF written THEN "zip" ELSE dest
             /\ zw' = [zw EXCEPT !.closed = TRUE, !.err = ~written]
             /\ writeLog' = Append(writeLog, written)
    /\ pc' = "fileclose"
    /\ UNCHANGED <<entries, dest0, i, figureCount, figureData, readLog, docBody,
                   figureIndex, parts, result>>

\* line 398, deferred: outFile.Close(); its error is dropped
FileClose ==
    /\ pc = "fileclose"
    /\ \E ok \in BOOLEAN : writeLog' = Append(writeLog, ok)
    /\ pc' = "done"
    /\ UNCHANGED <<entries, dest0, i, figureCount, figureData, readLog, docBody,
                   figureIndex, parts, dest, zw, central, result>>

Next ==
    \/ ReadFigures
    \/ ReadDone
    \/ BuildBody
    \/ BuildParts
    \/ OsCreate
    \/ WriteFixed
    \/ WriteFixedDone
    \/ WriteMedia
    \/ ReturnNil
    \/ ZipClose
    \/ FileClose

Spec == Init /\ [][Next]_vars

SpecEscape == InitEscape /\ [][Next]_vars

----------------------------------------------------------------------------
(* What the properties below speak of *)

FiguresUpTo(es, p) == Cardinality({q \in 1..p : es[q].Type = "figure"})

TextsUpTo(es, p) == Cardinality({q \in 1..p : es[q].Type = "text"})

NFigures == FiguresUpTo(entries, Len(entries))

NTexts == TextsUpTo(entries, Len(entries))

\* the position in entries of the k-th figure entry
KthFigure(k) ==
    CHOOSE p \in DOMAIN entries :
        entries[p].Type = "figure" /\ FiguresUpTo(entries, p) = k

\* the index in the body of the first block of the entry at position p
BlockOf(p) == 2 * FiguresUpTo(entries, p - 1) + TextsUpTo(entries, p - 1) + 1

\* the body is complete: the loop of lines 281-341 has ended
BodyBuilt == pc \in {"create", "write", "media", "zipclose", "fileclose"}
             \/ (pc = "done" /\ result # "errRead")

\* the function has returned nil
ReturnedNil == pc = "done" /\ result = "nil"

ImageBlocks(body) == {k \in DOMAIN body : body[k].kind = "image"}

\* the content of the archive entry called name
Part(dir, name) == dir[CHOOSE k \in DOMAIN dir : dir[k].name = name].content

HasPart(dir, name) == \E k \in DOMAIN dir : dir[k].name = name

IsMedia(e) == e.content.kind = "bytes"

Ordinals(n) == 1..n

RECURSIVE GCD(_, _)
GCD(a, b) == IF b = 0 THEN a ELSE GCD(b, a % b)

\* floor(h * w / sw), with h and sw reduced first so that nothing overflows
FloorMulDiv(h, w, sw) == ((h \div GCD(h, sw)) * w) \div (sw \div GCD(h, sw))

----------------------------------------------------------------------------
(* C1: after a build that returned nil, with N figure entries, the rId     *)
(* tokens embedded in the body written to word/document.xml, the           *)
(* Relationship Ids of word/_rels/document.xml.rels, the media parts of    *)
(* the archive and the image overrides of [Content_Types].xml all carry    *)
(* exactly the ordinals 1..N, once each, and rId{i} targets                *)
(* media/image{i}.svg, a part of the archive.                              *)
OrdinalConsistency ==
    ReturnedNil =>
        LET dir   == zw.dir
            body  == Part(dir, <<"word", "document.xml">>).body
            rels  == Part(dir, <<"word", "_rels", "document.xml.rels">>).rels
            types == Part(dir, <<"[Content_Types].xml">>).overrides
            media == {k \in DOMAIN dir : IsMedia(dir[k])}
            image == {k \in DOMAIN types : types[k].ContentType = "image/svg+xml"}
            N     == NFigures
        IN  /\ {body[k].embed : k \in ImageBlocks(body)} = {RId(n) : n \in Ordinals(N)}
            /\ Cardinality(ImageBlocks(body)) = N
            /\ {rels[k].Id : k \in DOMAIN rels} = {RId(n) : n \in Ordinals(N)}
            /\ Len(rels) = N
            /\ {dir[k].name : k \in media} = {MediaName(n) : n \in Ordinals(N)}
            /\ Cardinality(media) = N
            /\ {types[k].PartName : k \in image} = {MediaPartName(n) : n \in Ordinals(N)}
            /\ Cardinality(image) = N
            /\ \A k \in DOMAIN rels :
                 \E n \in Ordinals(N) :
                    /\ rels[k].Id = RId(n)
                    /\ rels[k].Target = MediaTarget(n)
                    /\ HasPart(dir, <<"word">> \o rels[k].Target)
            /\ (dest = "zip" => central = dir)

\* a build of two figures and a text has returned nil
OrdinalConsistencyWitness ==
    ReturnedNil /\ NFigures = 2 /\ NTexts = 1 /\ dest = "zip"

(* C2: the body holds the blocks of the entries in input order: a figure   *)
(* entry gives a drawing paragraph and right after it its legend           *)
(* paragraph, a text entry one paragraph, any other entry nothing; the     *)
(* k-th figure entry is the one whose drawing embeds rId{k}; a text entry  *)
(* takes no ordinal.                                                       *)
OrderPreservation ==
    BodyBuilt =>
        /\ Len(docBody) = 2 * NFigures + NTexts
        /\ parts.documentXML.body = docBody
        /\ \A p \in DOMAIN entries :
             LET b == BlockOf(p)
             IN  /\ entries[p].Type = "figure" =>
                      /\ docBody[b].kind = "image"
                      /\ docBody[b].embed = RId(FiguresUpTo(entries, p))
                      /\ docBody[b + 1] = ParaBlock(xmlEscape(entries[p].Legend))
                 /\ entries[p].Type = "text" =>
                      docBody[b] = ParaBlock(xmlEscape(entries[p].Text))

\* the body of <<text, figure, text>> or the like is complete: a figure
\* after a text, with different strings
OrderPreservationWitness ==
    /\ BodyBuilt
    /\ Len(entries) = 3
    /\ entries[1].Type = "text" /\ entries[2].Type = "figure" /\ entries[3].Type = "text"
    /\ entries[1].Text # entries[2].Legend

(* C3: after a build that returned nil, the k-th media part of the         *)
(* archive is word/media/image{k}.svg and holds the bytes read for the     *)
(* k-th figure entry, the entry whose drawing embeds rId{k}; the media     *)
(* parts are in ascending order.                                           *)
MediaBytes ==
    ReturnedNil =>
        LET media == SelectSeq(zw.dir, IsMedia)
        IN  /\ Len(media) = NFigures
            /\ \A k \in 1..NFigures :
                 /\ media[k].name = MediaName(k)
                 /\ media[k].content.data = FileData[entries[KthFigure(k)].SvgPath]
                 /\ docBody[BlockOf(KthFigure(k))].embed = RId(k)
            /\ (dest = "zip" => central = zw.dir)

\* returned nil with input2.svg as the first figure and input1.svg as the second
MediaBytesWitness ==
    /\ ReturnedNil
    /\ NFigures = 2
    /\ entries[KthFigure(1)].SvgPath = "input2.svg"
    /\ entries[KthFigure(2)].SvgPath = "input1.svg"

(* C4: every drawing has the same width in wp:extent and in a:ext, and     *)
(* that width is usableWidth / 20 * 12700 with usableWidth = pageWidth -   *)
(* leftMargin - rightMargin, read exactly or with Go's integer division.   *)
usableWidth == pageWidth - leftMargin - rightMargin

WidthIsUsableWidth ==
    \A k \in ImageBlocks(docBody) :
        /\ docBody[k].extentCx = docBody[k].extCx
        /\ \/ docBody[k].extentCx * twipsPerPoint = usableWidth * emuPerPoint
           \/ docBody[k].extentCx = (usableWidth \div twipsPerPoint) * emuPerPoint

(* C5: every drawing's height, in wp:extent and in a:ext, is               *)
(* floor(2000000 * width / 3000000) for its emitted width.                 *)
HeightIsFloorOfScaledWidth ==
    \A k \in ImageBlocks(docBody) :
        /\ docBody[k].extentCy = docBody[k].extCy
        /\ docBody[k].extentCy =
               FloorMulDiv(sourceHeightEmu, docBody[k].extentCx, sourceWidthEmu)

\* a drawing has been written to the body
HeightWitness == ImageBlocks(docBody) # {}

(* C6: the function returns nil only if the destination was created and    *)
(* every write to it succeeded, the two closes included.                   *)
NilOnlyIfEveryWriteSucceeded ==
    ReturnedNil => /\ dest # dest0
                   /\ \A k \in DOMAIN writeLog : writeLog[k]

(* C7: a build that returned an error after creating the destination does  *)
(* not leave a finalised archive there; whenever the destination is a      *)
(* finalised archive, the build returned nil and the archive lists all     *)
(* eight fixed entries and every media part.                               *)
NoPartialArchive ==
    /\ (pc = "done" /\ result # "nil") => dest # "zip"
    /\ dest = "zip" =>
         /\ result = "nil"
         /\ Len(central) = Len(FixedEntries(parts)) + NFigures
         /\ \A k \in 1..Len(FixedEntries(parts)) : central[k] = FixedEntries(parts)[k]
         /\ \A n \in 1..NFigures : HasPart(central, MediaName(n))

\* a media write failed after the fixed entries and a media part were
\* written, and the function has returned
NoPartialArchiveWitness ==
    /\ pc = "done"
    /\ result = "errWrite"
    /\ Len(zw.dir) > Len(FixedEntries(parts))
    /\ dest = "truncated"

(* C8: after a build that returned nil the archive's entries are, in this  *)
(* order, _rels/ word/ word/_rels/ word/media/ [Content_Types].xml         *)
(* _rels/.rels word/document.xml word/_rels/document.xml.rels and          *)
(* word/media/image1.svg .. image{N}.svg: no name twice, and every prefix  *)
(* of a file's name is there as a directory entry.                         *)
ArchiveListing ==
    ReturnedNil =>
        LET dir   == zw.dir
            names == [k \in DOMAIN dir |-> dir[k].name]
        IN  /\ names = << <<"_rels", "">>, <<"word", "">>, <<"word", "_rels", "">>,
                          <<"word", "media", "">>, <<"[Content_Types].xml">>,
                          <<"_rels", ".rels">>, <<"word", "document.xml">>,
                          <<"word", "_rels", "document.xml.rels">> >>
                        \o [n \in 1..NFigures |->
                              <<"word", "media", "image" \o ToString(n) \o ".svg">>]
            /\ \A j, k \in DOMAIN names : names[j] = names[k] => j = k
            /\ \A k \in DOMAIN names :
                 /\ (dir[k].content.kind = "dir") = (names[k][Len(names[k])] = "")
                 /\ \A j \in 1..(Len(names[k]) - 1) :
                      names[k][j] # "" /\ HasPart(dir, SubSeq(names[k], 1, j) \o <<"">>)
            /\ (dest = "zip" => central = dir)

\* returned nil: once with no figure and once with two
ArchiveListingWitness ==
    ReturnedNil /\ NFigures = 2 /\ dest = "zip"

ArchiveListingEmptyWitness ==
    ReturnedNil /\ entries = <<>> /\ dest = "zip"

----------------------------------------------------------------------------
(* Reading character data back, as an XML parser does: a reference         *)
(* &name; or &#n; or &#xh; stands for one character, any other character   *)
(* for itself; a raw "<" or ">" and an "&" that starts no reference are    *)
(* markup, not text.                                                       *)

DigitValue(r) ==
    IF r >= 48 /\ r <= 57 THEN r - 48
    ELSE IF r >= 65 /\ r <= 70 THEN r - 55
    ELSE IF r >= 97 /\ r <= 102 THEN r - 87
    ELSE 99

RECURSIVE Numeral(_, _)
Numeral(digits, base) ==
    IF digits = <<>> THEN 0
    ELSE base * Numeral(SubSeq(digits, 1, Len(digits) - 1), base)
         + DigitValue(digits[Len(digits)])

IsNumeral(digits, base) ==
    /\ Len(digits) \in 1..6
    /\ \A k \in DOMAIN digits : DigitValue(digits[k]) < base

\* the character the reference &name; stands for, -1 when there is none
Reference(name) ==
    IF name = Spell.amp THEN 38
    ELSE IF name = Spell.lt THEN 60
    ELSE IF name = Spell.gt THEN 62
    ELSE IF name = Spell.quot THEN 34
    ELSE IF name = Spell.apos THEN 39
    ELSE IF Len(name) >= 2 /\ name[1] = 35 /\ name[2] = 120
              /\ IsNumeral(SubSeq(name, 3, Len(name)), 16)
         THEN Numeral(SubSeq(name, 3, Len(name)), 16)
    ELSE IF Len(name) >= 1 /\ name[1] = 35 /\ IsNumeral(Tail(name), 10)
         THEN Numeral(Tail(name), 10)
    ELSE -1

RECURSIVE Unescape(_)
Unescape(t) ==
    IF t = <<>> THEN [ok |-> TRUE, s |-> <<>>]
    ELSE IF Head(t) = 60 \/ Head(t) = 62 THEN [ok |-> FALSE, s |-> <<>>]
    ELSE IF Head(t) = 38
    THEN LET semis == {k \in DOMAIN t : t[k] = 59}
         IN  IF semis = {} THEN [ok |-> FALSE, s |-> <<>>]
             ELSE LET j    == CHOOSE k \in semis : \A m \in semis : k <= m
                      c    == Reference(SubSeq(t, 2, j - 1))
                      rest == Unescape(SubSeq(t, j + 1, Len(t)))
                  IN  IF c = -1 THEN [ok |-> FALSE, s |-> <<>>]
                      ELSE [ok |-> rest.ok, s |-> <<c>> \o rest.s]
    ELSE LET rest == Unescape(Tail(t))
         IN  [ok |-> rest.ok, s |-> <<Head(t)>> \o rest.s]

\* a character XML 1.0 allows in a document
XmlChar(r) ==
    \/ r \in {9, 10, 13}
    \/ r \in 32..55295
    \/ r \in 57344..65533
    \/ r \in 65536..1114111

\* the legend or text the entry at position p contributes, and its paragraph
SourceText(p) == IF entries[p].Type = "figure" THEN entries[p].Legend ELSE entries[p].Text

ParagraphOf(p) == docBody[BlockOf(p) + (IF entries[p].Type = "figure" THEN 1 ELSE 0)]

Worded(p) == entries[p].Type \in {"figure", "text"}

(* C9 as stated: every legend and text is in the body as xmlEscape made    *)
(* it; the escaped form has no raw "<" or ">" and no "&" but at the start  *)
(* of a reference; and reading it back gives the original string, whatever *)
(* the string.                                                             *)
EscapingRoundTripAnyString ==
    BodyBuilt =>
        \A p \in DOMAIN entries :
            Worded(p) =>
                /\ ParagraphOf(p).kind = "para"
                /\ ParagraphOf(p).text = xmlEscape(SourceText(p))
                /\ Unescape(ParagraphOf(p).text).ok
                /\ Unescape(ParagraphOf(p).text).s = SourceText(p)

(* C9 as amended: the same, with the original string read back when all    *)
(* its characters are characters XML 1.0 allows; any other character is    *)
(* read back as U+FFFD.                                                    *)
EscapingRoundTrip ==
    BodyBuilt =>
        \A p \in DOMAIN entries :
            Worded(p) =>
                LET src  == SourceText(p)
                    back == Unescape(ParagraphOf(p).text)
                IN  /\ ParagraphOf(p).kind = "para"
                    /\ ParagraphOf(p).text = xmlEscape(src)
                    /\ back.ok
                    /\ Len(back.s) = Len(src)
                    /\ \A k \in DOMAIN src :
                         back.s[k] = IF XmlChar(src[k]) THEN src[k] ELSE 65533
                    /\ (\A k \in DOMAIN src : XmlChar(src[k])) => back.s = src

\* the legend "&<" of a figure is in the body, escaped
EscapingRoundTripWitness ==
    /\ BodyBuilt
    /\ Len(entries) = 1
    /\ entries[1].Type = "figure"
    /\ entries[1].Legend = <<38, 60>>
    /\ docBody[2].text = <<38, 97, 109, 112, 59, 38, 108, 116, 59>>

(* C10: a failed read returns at once: the destination is as it was before *)
(* the call, nothing was written, and no entry after the failing one was   *)
(* read; and the destination is touched only after every figure was read.  *)
ReadsBeforeCreate ==
    /\ result = "errRead" =>
         /\ pc = "done"
         /\ dest = dest0
         /\ writeLog = <<>> /\ central = <<>> /\ zw = NoWriter
         /\ readLog = [k \in 1..FiguresUpTo(entries, i - 1) |-> entries[KthFigure(k)].SvgPath]
         /\ Len(figureData) = Len(readLog) - 1
    /\ (dest # dest0 \/ writeLog # <<>>) =>
         /\ Len(figureData) = NFigures
         /\ Len(readLog) = NFigures

\* the read of the second of three figures failed, over an existing file
ReadsBeforeCreateWitness ==
    /\ result = "errRead"
    /\ pc = "done"
    /\ dest0 = "old"
    /\ NFigures = 3
    /\ Len(readLog) = 2

====
